---- MODULE Spec2Model ----
(***************************************************************************)
(* A model of the Cloudflare DNS-record resource handler                   *)
(* (package cloudflare, resource_cloudflare_record.go).                    *)
(*                                                                         *)
(* Strings are sequences of atoms: <<"w", ".", "ex.com">> is the text      *)
(* "w.ex.com".  The empty string is << >>.  An error is the sequence of    *)
(* the pieces of its text, and nil is << >>.                               *)
(*                                                                         *)
(* The remote API client (cloudflare-go) is the environment: every call    *)
(* the handlers make gets its outcome as an input of the operation.        *)
(***************************************************************************)
EXTENDS Integers, Sequences, FiniteSets, TLC

VARIABLES
    d,       \* the schema.ResourceData of the resource instance
    last,    \* the last operation: its name, the error it returned, ...
    calls,   \* the remote calls the last operation made, in order
    nm       \* the name composition pair under test (NameSpec only)

vars == <<d, last, calls, nm>>

----------------------------------------------------------------------------
(* Bounds *)

\* The provider assigns the identifiers r1 .. rMaxIds.
MaxIds == 1

\* A filtered lookup answers with 0 .. MaxMatches records.
MaxMatches == 2

\* The longest subdomain and domain text NameSpec composes.
MaxLen == 3

----------------------------------------------------------------------------
(* Text *)

nil == << >>

recordNotFoundMessage == "Invalid dns record identifier"

HasSuffix(s, suffix) ==
    /\ Len(suffix) <= Len(s)
    /\ SubSeq(s, Len(s) - Len(suffix) + 1, Len(s)) = suffix

\* strings.TrimSuffix: the suffix is removed once, if it is there.
TrimSuffix(s, suffix) ==
    IF HasSuffix(s, suffix) THEN SubSeq(s, 1, Len(s) - Len(suffix)) ELSE s

\* strings.Contains(err.Error(), msg) on an error text given by its pieces.
Contains(text, msg) == \E i \in 1..Len(text) : text[i] = msg

\* fmt.Errorf("<prefix>: %s", err)
Errorf(prefix, err) == <<prefix>> \o err

\* strings.Split(s, "|"): n separators give n + 1 tokens, empty ones included.
RECURSIVE Split(_)
Split(s) ==
    IF \A i \in 1..Len(s) : s[i] # "|"
    THEN <<s>>
    ELSE LET k == CHOOSE i \in 1..Len(s) :
                      s[i] = "|" /\ \A j \in 1..(i - 1) : s[j] # "|"
         IN  <<SubSeq(s, 1, k - 1)>> \o Split(SubSeq(s, k + 1, Len(s)))

subdomainNameTrimAll(fullName, domain) ==
    LET t == TrimSuffix(fullName, domain)
        n == CHOOSE k \in 0..Len(t) :
                 /\ \A i \in (k + 1)..Len(t) : t[i] = "."
                 /\ (k = 0 \/ t[k] # ".")
    IN  SubSeq(t, 1, n)

subdomainName(fullName, domain) ==
    TrimSuffix(TrimSuffix(fullName, domain), <<".">>)

recordName(subdomain, domain) ==
    IF subdomain = << >> THEN domain ELSE subdomain \o <<".">> \o domain

----------------------------------------------------------------------------
(* Data *)

Domains    == {<<"ex.com">>}
Subdomains == {<< >>, <<"w">>}
Types      == {<<"A">>, <<"TXT">>}
Values     == {<<"1.2.3.4">>, <<"text">>}
Optional   == {"ttl", "priority", "proxied"}

RecIds == {<<"r" \o ToString(i)>> : i \in 1..MaxIds}

\* A configuration as the host hands it to Create: an optional field that is
\* not set reads as its zero value.  ttl and priority are given together or
\* not at all, and a TXT record holds text.
Configs ==
    {c \in [domain : Domains, subdomain : Subdomains, type : Types,
            value : Values, ttl : {0, 120}, priority : {0, 10},
            proxied : BOOLEAN, set : SUBSET Optional] :
        /\ ("ttl" \in c.set) = (c.ttl # 0)
        /\ ("priority" \in c.set) = (c.priority # 0)
        /\ ("ttl" \in c.set) = ("priority" \in c.set)
        /\ c.proxied => "proxied" \in c.set
        /\ c.type = <<"TXT">> => c.value = <<"text">>}

\* The ResourceData of a resource that is not created yet.
NewData(c) ==
    [id |-> << >>, domain |-> c.domain, subdomain |-> c.subdomain,
     type |-> c.type, value |-> c.value, ttl |-> c.ttl,
     priority |-> c.priority, proxied |-> c.proxied, set |-> c.set,
     zone_id |-> << >>]

\* The ResourceData the host hands to the importer: only the identifier.
ImportData(id) ==
    [id |-> id, domain |-> << >>, subdomain |-> << >>, type |-> << >>,
     value |-> << >>, ttl |-> 0, priority |-> 0, proxied |-> FALSE,
     set |-> {}, zone_id |-> << >>]

\* d.GetOk(key) for the optional fields, as helper/schema of the host defines
\* it: the value, and whether the field is set to something other than the
\* zero value of its type (false, 0).
GetOk(dd, key) ==
    [v  |-> dd[key],
     ok |-> key \in dd.set /\ dd[key] # (IF key = "proxied" THEN FALSE ELSE 0)]

\* cloudflare.DNSRecord
NoRecord ==
    [ID |-> << >>, Type |-> << >>, Name |-> << >>, Content |-> << >>,
     Proxied |-> FALSE, TTL |-> 0, Priority |-> 0, ZoneID |-> << >>,
     ZoneName |-> << >>]

\* A remote call: the method, the error it answered with, the record sent, the
\* number of records and the identifier in the answer.
Call(api, err, sent, n, id) ==
    [api |-> api, err |-> err, sent |-> sent, n |-> n, id |-> id]

\* What a handler leaves behind: the ResourceData, the error returned, the
\* remote calls made, how often Read ran, the resources returned (import).
Ret(dd, err, cs, reads, ret) ==
    [d |-> dd, err |-> err, calls |-> cs, reads |-> reads, ret |-> ret]

----------------------------------------------------------------------------
(* The outcomes of the remote calls *)

ZoneErr  == <<"Zone could not be found">>
OtherErr == <<"HTTP status 500", "Internal error">>
NotFoundErrs ==
    {<<recordNotFoundMessage>>,
     <<"HTTP status 400", recordNotFoundMessage, "code 1032">>}
RemoteErrs == NotFoundErrs \cup {OtherErr}

ZoneID(domain) == <<"zone of">> \o domain

\* The records of a type the provider may hold in the zone; the identifier is
\* the one the record is fetched by.
RemoteRecords(domain, type) ==
    {[ID |-> << >>, Type |-> type, Name |-> recordName(s, domain),
      Content |-> IF type = <<"A">> THEN <<"1.2.3.4">> ELSE <<"text">>,
      Proxied |-> o[3], TTL |-> o[1], Priority |-> o[2],
      ZoneID |-> ZoneID(domain), ZoneName |-> domain] :
        s \in Subdomains, o \in {<<1, 0, FALSE>>, <<120, 10, TRUE>>}}

FetchOutcomes(domain, type) ==
    {[err |-> e, rec |-> NoRecord] : e \in RemoteErrs}
        \cup {[err |-> nil, rec |-> r] : r \in RemoteRecords(domain, type)}

NoFetch == [err |-> nil, rec |-> NoRecord]

\* The inputs of one run of Read: the fetch is reached only with a zone.
ReadInputs(domain, type) ==
    {[zone |-> ZoneErr, fetch |-> NoFetch]}
        \cup {[zone |-> nil, fetch |-> f] : f \in FetchOutcomes(domain, type)}

NoRead == [zone |-> nil, fetch |-> NoFetch]

----------------------------------------------------------------------------
(* Validation hooks (validators of the package) *)

validateRecordName(t, value) ==
    IF t = <<"A">> /\ value # <<"1.2.3.4">>
    THEN <<"A record must be a valid IPv4 address">>
    ELSE nil

validateRecordType(t, proxied) ==
    IF t \in {<<"A">>} THEN nil
    ELSE IF ~proxied THEN nil
    ELSE <<"Type cannot be proxied">>

----------------------------------------------------------------------------
(* Read *)

AnyErrorIsNotFound(err) == err # nil

\* err != nil && strings.Contains(err.Error(), recordNotFoundMessage)
RecordNotFound(err) == err # nil /\ Contains(err, recordNotFoundMessage)

resourceCloudFlareRecordRead(dd, in) ==
    LET domain == dd.domain
        zoneID == ZoneID(domain)
        zcall  == Call("ZoneIDByName", in.zone, NoRecord, 0, << >>)
        fcall  == Call("DNSRecord", in.fetch.err, NoRecord, 0, dd.id)
        \* client.DNSRecord(zoneID, d.Id()) answers with the record of d.Id()
        record == [in.fetch.rec EXCEPT !.ID = dd.id]
    IN  IF in.zone # nil
        THEN Ret(dd, Errorf("Error finding zone", in.zone), <<zcall>>, 1, 0)
        ELSE IF RecordNotFound(in.fetch.err)
        THEN Ret([dd EXCEPT !.id = << >>], nil, <<zcall, fcall>>, 1, 0)
        ELSE IF in.fetch.err # nil
        THEN Ret(dd, in.fetch.err, <<zcall, fcall>>, 1, 0)
        ELSE Ret([dd EXCEPT !.id = record.ID,
                            !.type = record.Type,
                            !.subdomain = subdomainName(record.Name, domain),
                            !.value = record.Content,
                            !.ttl = record.TTL,
                            !.priority = record.Priority,
                            !.proxied = record.Proxied,
                            !.set = Optional,
                            !.zone_id = zoneID],
                 nil, <<zcall, fcall>>, 1, 0)

----------------------------------------------------------------------------
(* Create *)

CreateOutcomes ==
    {[err |-> OtherErr, id |-> << >>], [err |-> nil, id |-> << >>]}
        \cup {[err |-> nil, id |-> i] : i \in RecIds}

NoCreate == [err |-> nil, id |-> << >>]

\* The inputs of one run of Create: each call is reached only when the
\* calls before it succeeded.
CreateInputs(c) ==
    {[zone |-> ZoneErr, create |-> NoCreate, read |-> NoRead]}
        \cup {[zone |-> nil, create |-> o, read |-> NoRead] :
                 o \in {x \in CreateOutcomes : x.err # nil \/ x.id = << >>}}
        \cup {[zone |-> nil, create |-> o, read |-> r] :
                 o \in {x \in CreateOutcomes : x.err = nil /\ x.id # << >>},
                 r \in ReadInputs(c.domain, c.type)}

\* The record Create sends.
CreateRecord(dd) ==
    LET priority == GetOk(dd, "priority")
        ttl      == GetOk(dd, "ttl")
    IN  [ID |-> << >>,
         Type |-> dd.type,
         Name |-> recordName(dd.subdomain, dd.domain),
         Content |-> dd.value,
         Proxied |-> dd.proxied,
         ZoneName |-> dd.domain,
         Priority |-> IF priority.ok THEN priority.v ELSE 0,
         TTL |-> IF ttl.ok THEN ttl.v ELSE 0,
         ZoneID |-> << >>]

EmptyIdAccepted(id) == FALSE

\* r.Result.ID == ""
EmptyResult(id) == id = << >>

NoIdStored(id) == << >>

\* the identifier d.SetId stores after the remote create
CreatedId(id) == id

\* Create from the remote create on: the zone is resolved already.
CreateRemote(dd, newRecord, in) ==
    LET zoneID == ZoneID(newRecord.ZoneName)
        d1     == [dd EXCEPT !.zone_id = zoneID]
        rec    == [newRecord EXCEPT !.ZoneID = zoneID]
        zcall  == Call("ZoneIDByName", nil, NoRecord, 0, << >>)
        ccall  == Call("CreateDNSRecord", in.create.err, rec, 0, in.create.id)
        d2     == [d1 EXCEPT !.id = CreatedId(in.create.id)]
        r      == resourceCloudFlareRecordRead(d2, in.read)
    IN  IF in.create.err # nil
        THEN Ret(d1, Errorf("Failed to create record", in.create.err),
                 <<zcall, ccall>>, 0, 0)
        ELSE IF EmptyResult(in.create.id)
        THEN Ret(d1, <<"Failed to find record in Creat response; Record was empty">>,
                 <<zcall, ccall>>, 0, 0)
        ELSE Ret(r.d, r.err, <<zcall, ccall>> \o r.calls, r.reads, 0)

\* Create with the zone resolved before the record is validated.
CreateZoneFirst(dd, in) ==
    LET newRecord == CreateRecord(dd)
        zcall     == Call("ZoneIDByName", in.zone, NoRecord, 0, << >>)
        d1        == [dd EXCEPT !.zone_id = ZoneID(newRecord.ZoneName)]
        nameErr   == validateRecordName(newRecord.Type, newRecord.Content)
        typeErr   == validateRecordType(newRecord.Type, newRecord.Proxied)
    IN  IF in.zone # nil
        THEN Ret(dd, Errorf("Error finding zone", in.zone), <<zcall>>, 0, 0)
        ELSE IF nameErr # nil
        THEN Ret(d1, Errorf("Error validating record name", nameErr),
                 <<zcall>>, 0, 0)
        ELSE IF typeErr # nil
        THEN Ret(d1, Errorf("Error validating record type", typeErr),
                 <<zcall>>, 0, 0)
        ELSE CreateRemote(dd, newRecord, in)

resourceCloudFlareRecordCreate(dd, in) ==
    LET newRecord == CreateRecord(dd)
        zcall     == Call("ZoneIDByName", in.zone, NoRecord, 0, << >>)
        nameErr   == validateRecordName(newRecord.Type, newRecord.Content)
        typeErr   == validateRecordType(newRecord.Type, newRecord.Proxied)
    IN  IF nameErr # nil
        THEN Ret(dd, Errorf("Error validating record name", nameErr),
                 << >>, 0, 0)
        ELSE IF typeErr # nil
        THEN Ret(dd, Errorf("Error validating record type", typeErr),
                 << >>, 0, 0)
        ELSE IF in.zone # nil
        THEN Ret(dd, Errorf("Error finding zone", in.zone), <<zcall>>, 0, 0)
        ELSE CreateRemote(dd, newRecord, in)

----------------------------------------------------------------------------
(* Update *)

UpdateInputs(domain, type) ==
    {[zone |-> ZoneErr, update |-> nil, read |-> NoRead]}
        \cup {[zone |-> nil, update |-> e, read |-> NoRead] : e \in RemoteErrs}
        \cup {[zone |-> nil, update |-> nil, read |-> r] :
                 r \in ReadInputs(domain, type)}

UpdateProxiedNever(dd) == FALSE

\* Proxied: false, then overridden by d.GetOk("proxied")
UpdateProxied(dd) ==
    LET proxied == GetOk(dd, "proxied")
    IN  IF proxied.ok THEN proxied.v ELSE FALSE

\* The record Update sends.
UpdateRecord(dd) ==
    LET priority == GetOk(dd, "priority")
        ttl      == GetOk(dd, "ttl")
    IN  [ID |-> dd.id,
         Type |-> dd.type,
         Name |-> recordName(dd.subdomain, dd.domain),
         Content |-> dd.value,
         ZoneName |-> dd.domain,
         Proxied |-> UpdateProxied(dd),
         Priority |-> IF priority.ok THEN priority.v ELSE 0,
         TTL |-> IF ttl.ok THEN ttl.v ELSE 0,
         ZoneID |-> << >>]

resourceCloudFlareRecordUpdate(dd, in) ==
    LET updateRecord == UpdateRecord(dd)
        zoneID == ZoneID(updateRecord.ZoneName)
        rec    == [updateRecord EXCEPT !.ZoneID = zoneID]
        zcall  == Call("ZoneIDByName", in.zone, NoRecord, 0, << >>)
        ucall  == Call("UpdateDNSRecord", in.update, rec, 0, dd.id)
        r      == resourceCloudFlareRecordRead(dd, in.read)
    IN  IF in.zone # nil
        THEN Ret(dd, Errorf("Error finding zone", in.zone), <<zcall>>, 0, 0)
        ELSE IF in.update # nil
        THEN Ret(dd, Errorf("Failed to update CloudFlare Record", in.update),
                 <<zcall, ucall>>, 0, 0)
        ELSE Ret(r.d, r.err, <<zcall, ucall>> \o r.calls, r.reads, 0)

----------------------------------------------------------------------------
(* Delete *)

DeleteInputs ==
    {[zone |-> ZoneErr, delete |-> nil]}
        \cup {[zone |-> nil, delete |-> e] : e \in RemoteErrs \cup {nil}}

DeletedOnlyWithoutError(err) == err = nil

\* err == nil || strings.Contains(err.Error(), recordNotFoundMessage)
Deleted(err) == err = nil \/ Contains(err, recordNotFoundMessage)

resourceCloudFlareRecordDelete(dd, in) ==
    LET zcall == Call("ZoneIDByName", in.zone, NoRecord, 0, << >>)
        dcall == Call("DeleteDNSRecord", in.delete, NoRecord, 0, dd.id)
    IN  IF in.zone # nil
        THEN Ret(dd, Errorf("Error finding zone", in.zone), <<zcall>>, 0, 0)
        ELSE IF Deleted(in.delete)
        THEN Ret(dd, nil, <<zcall, dcall>>, 0, 0)
        ELSE Ret(dd, Errorf("Error deleting CloudFlare Record", in.delete),
                 <<zcall, dcall>>, 0, 0)

----------------------------------------------------------------------------
(* Import *)

\* The composite identifiers handed to the importer.
ImportIds ==
    {<<"w", "|", "ex.com", "|", "A">>,
     <<"|", "ex.com", "|", "A">>,
     <<"w", "|", "ex.com">>,
     <<"w", "|", "ex.com", "|", "A", "|", "x">>,
     <<"w">>,
     << >>}

\* The n records a filtered lookup answers with.
Records(n) == [i \in 1..n |-> [NoRecord EXCEPT !.ID = <<"r" \o ToString(i)>>]]

NoLookup == [err |-> nil, n |-> 0]

ImportInputs(domain, type) ==
    {[zone |-> ZoneErr, lookup |-> NoLookup, read |-> NoRead]}
        \cup {[zone |-> nil, lookup |-> [err |-> OtherErr, n |-> 0],
               read |-> NoRead]}
        \cup {[zone |-> nil, lookup |-> [err |-> nil, n |-> k],
               read |-> NoRead] : k \in (0..MaxMatches) \ {1}}
        \cup {[zone |-> nil, lookup |-> [err |-> nil, n |-> 1], read |-> r] :
                 r \in ReadInputs(domain, type)}

MalformedOnlyWhenShort(tokens) == Len(tokens) < 3

\* len(tokens) != 3
Malformed(tokens) == Len(tokens) # 3

AmbiguousOnlyWhenEmpty(records) == Len(records) = 0

\* len(records) != 1
Ambiguous(records) == Len(records) # 1

\* fmt.Sprintf("%s.%s", subdomain, domain)
ImportFilterName(subdomain, domain) == subdomain \o <<".">> \o domain

\* Import once the identifier is split into its three tokens.
ImportTokens(dd, tokens, in) ==
    LET subdomain  == tokens[1]
        domain     == tokens[2]
        recordType == tokens[3]
        zoneID     == ZoneID(domain)
        filter     == [NoRecord EXCEPT
                          !.Name = ImportFilterName(subdomain, domain),
                          !.Type = recordType]
        records    == Records(in.lookup.n)
        zcall == Call("ZoneIDByName", in.zone, NoRecord, 0, << >>)
        lcall == Call("DNSRecords", in.lookup.err, filter, in.lookup.n, << >>)
        d1    == [dd EXCEPT !.id = records[1].ID, !.domain = domain]
        r     == resourceCloudFlareRecordRead(d1, in.read)
    IN  IF in.zone # nil
        THEN Ret(dd, Errorf("error finding zone", in.zone), <<zcall>>, 0, 0)
        ELSE IF in.lookup.err # nil
        THEN Ret(dd, Errorf("error filtering DNS records", in.lookup.err),
                 <<zcall, lcall>>, 0, 0)
        ELSE IF Ambiguous(records)
        THEN Ret(dd, <<"expected 1 record">>, <<zcall, lcall>>, 0, 0)
        ELSE IF r.err # nil
        THEN Ret(r.d, <<"error importing record">>,
                 <<zcall, lcall>> \o r.calls, r.reads, 0)
        ELSE Ret(r.d, nil, <<zcall, lcall>> \o r.calls, r.reads, 1)

importRecord(dd, in) ==
    LET tokens == Split(dd.id)
    IN  IF Malformed(tokens)
        THEN Ret(dd, <<"expecting subdomain|domain|type">>, << >>, 0, 0)
        ELSE ImportTokens(dd, tokens, in)

\* The k-th token of an identifier, when it has one.
Token(id, k) == IF Len(Split(id)) >= k THEN Split(id)[k] ELSE << >>

----------------------------------------------------------------------------
(* The resource instance under the host's lifecycle *)

\* The last operation: the ResourceData it was handed, the error it returned,
\* how often it ran Read, how many resources it returned.
Done(op, arg, r) ==
    [op |-> op, arg |-> arg, err |-> r.err, reads |-> r.reads, ret |-> r.ret]

NoName == [s |-> << >>, d |-> << >>, full |-> << >>, back |-> << >>,
           pc |-> "idle"]

Init ==
    /\ d = ImportData(<< >>)
    /\ last = [op |-> "none", arg |-> ImportData(<< >>), err |-> nil, reads |-> 0,
               ret |-> 0]
    /\ calls = << >>
    /\ nm = NoName

\* The host holds the resource in its state: it has an identifier, and it was
\* neither destroyed nor refused by the importer.  Create and the importer
\* run for a resource the host does not hold, the others for one it holds.
Managed ==
    /\ d.id # << >>
    /\ ~(last.op = "Import" /\ last.err # nil)
    /\ ~(last.op = "Delete" /\ last.err = nil)

\* The configuration the host merges into the state before Update: domain and
\* type force a new resource, the other fields may change.
Merge(dd, c) ==
    [dd EXCEPT !.subdomain = c.subdomain, !.value = c.value, !.ttl = c.ttl,
               !.priority = c.priority, !.proxied = c.proxied, !.set = c.set]

Create ==
    /\ ~Managed
    /\ \E c \in Configs : \E in \in CreateInputs(c) :
         LET r == resourceCloudFlareRecordCreate(NewData(c), in)
         IN  /\ d' = r.d
             /\ last' = Done("Create", NewData(c), r)
             /\ calls' = r.calls
             /\ UNCHANGED nm

Read ==
    /\ Managed
    /\ \E in \in ReadInputs(d.domain, d.type) :
        LET r == resourceCloudFlareRecordRead(d, in)
        IN  /\ d' = r.d
            /\ last' = Done("Read", d, r)
            /\ calls' = r.calls
            /\ UNCHANGED nm

Update ==
    /\ Managed
    /\ \E c \in {x \in Configs : x.domain = d.domain /\ x.type = d.type} :
       \E in \in UpdateInputs(d.domain, d.type) :
        LET r == resourceCloudFlareRecordUpdate(Merge(d, c), in)
        IN  /\ d' = r.d
            /\ last' = Done("Update", Merge(d, c), r)
            /\ calls' = r.calls
            /\ UNCHANGED nm

Delete ==
    /\ Managed
    /\ \E in \in DeleteInputs :
        LET r == resourceCloudFlareRecordDelete(d, in)
        IN  /\ d' = r.d
            /\ last' = Done("Delete", d, r)
            /\ calls' = r.calls
            /\ UNCHANGED nm

Import ==
    /\ ~Managed
    /\ \E id \in ImportIds : \E in \in ImportInputs(Token(id, 2), Token(id, 3)) :
         LET r == importRecord(ImportData(id), in)
         IN  /\ d' = r.d
             /\ last' = Done("Import", ImportData(id), r)
             /\ calls' = r.calls
             /\ UNCHANGED nm

Next == Create \/ Read \/ Update \/ Delete \/ Import

Spec == Init /\ [][Next]_vars

\* The host applying one configuration after another to a resource it has
\* created: the resource is as a successful Create left it, and as long as
\* the host holds it, it is eventually updated.
UpdateInit ==
    \E c \in Configs : \E in \in CreateInputs(c) :
        LET r == resourceCloudFlareRecordCreate(NewData(c), in)
        IN  /\ r.err = nil
            /\ r.d.id # << >>
            /\ d = r.d
            /\ last = Done("Create", NewData(c), r)
            /\ calls = r.calls
            /\ nm = NoName

UpdateSpec == UpdateInit /\ [][Update]_vars /\ WF_vars(Update)

----------------------------------------------------------------------------
(* Name composition on its own *)

RECURSIVE Texts(_)
Texts(n) ==
    IF n = 0 THEN {<< >>}
    ELSE Texts(n - 1)
             \cup {Append(t, a) : t \in Texts(n - 1), a \in {"a", "."}}

NameInit ==
    /\ d = ImportData(<< >>)
    /\ last = [op |-> "none", arg |-> ImportData(<< >>), err |-> nil, reads |-> 0,
               ret |-> 0]
    /\ calls = << >>
    /\ nm \in {[s |-> s, d |-> dom, full |-> << >>, back |-> << >>,
                pc |-> "start"] : s \in Texts(MaxLen), dom \in Texts(MaxLen)}

Compose ==
    /\ nm.pc = "start"
    /\ nm' = [nm EXCEPT !.full = recordName(nm.s, nm.d), !.pc = "composed"]
    /\ UNCHANGED <<d, last, calls>>

Decompose ==
    /\ nm.pc = "composed"
    /\ nm' = [nm EXCEPT !.back = subdomainName(nm.full, nm.d), !.pc = "done"]
    /\ UNCHANGED <<d, last, calls>>

NameNext == Compose \/ Decompose

NameSpec == NameInit /\ [][NameNext]_vars

----------------------------------------------------------------------------
(* Properties *)

\* The text of an error names the missing record.
NamesMissingRecord(err) ==
    \E i \in 1..Len(err) : err[i] = "Invalid dns record identifier"

\* The last operation reached its k-th remote call, a call of `api`.
Reached(k, api) == Len(calls) >= k /\ calls[k].api = api

\* C1: once the zone is resolved, Delete returns success exactly when the
\* remote delete succeeded or failed with a text naming the missing record;
\* on any other error of the remote delete it returns an error and leaves the
\* local identifier as it was.
C1_DeleteIdempotent ==
    [][(last'.op = "Delete" /\ Len(calls') = 2 /\ calls'[1].err = nil)
          => /\ (last'.err = nil)
                   <=> (calls'[2].err = nil \/ NamesMissingRecord(calls'[2].err))
             /\ last'.err # nil => d'.id = d.id]_vars

C1_Witness ==
    /\ last.op = "Delete"
    /\ Reached(2, "DeleteDNSRecord")
    /\ NamesMissingRecord(calls[2].err)
    /\ last.err = nil

\* C2: once the zone is resolved, a Read whose fetch fails with the text
\* naming the missing record empties the local identifier and returns
\* success; a Read whose fetch fails with any other error returns that error
\* and leaves the ResourceData as it was.
C2_ReadAbsent ==
    [][(last'.op = "Read" /\ Len(calls') = 2 /\ calls'[2].err # nil)
          => IF NamesMissingRecord(calls'[2].err)
             THEN d'.id = << >> /\ last'.err = nil
             ELSE last'.err = calls'[2].err /\ d' = d]_vars

C2_Witness ==
    /\ last.op = "Read"
    /\ Reached(2, "DNSRecord")
    /\ NamesMissingRecord(calls[2].err)
    /\ last.err = nil
    /\ d.id = << >>

\* C3: when the remote create answers without an error and with an empty
\* identifier, Create returns an error, the local identifier stays empty and
\* Read is not run.
C3_EmptyIdIsFatal ==
    (/\ last.op = "Create"
     /\ Reached(2, "CreateDNSRecord")
     /\ calls[2].err = nil
     /\ calls[2].id = << >>)
        => last.err # nil /\ d.id = << >> /\ last.reads = 0 /\ Len(calls) = 2

C3_Witness ==
    /\ last.op = "Create"
    /\ Reached(2, "CreateDNSRecord")
    /\ calls[2].err = nil
    /\ calls[2].id = << >>
    /\ last.err # nil

\* C4: an import whose lookup answers with no record, or with two or more,
\* returns an error and no resource, runs no Read and leaves the ResourceData
\* as it was handed over; an import that succeeds had exactly one match.
C4_ImportNeedsOneMatch ==
    /\ (/\ last.op = "Import"
        /\ Reached(2, "DNSRecords")
        /\ calls[2].err = nil
        /\ calls[2].n # 1)
           => /\ last.err # nil
              /\ last.ret = 0
              /\ last.reads = 0
              /\ d = last.arg
    /\ (last.op = "Import" /\ last.err = nil)
           => Reached(2, "DNSRecords") /\ calls[2].n = 1 /\ last.ret = 1

C4_Witness ==
    /\ last.op = "Import"
    /\ Reached(2, "DNSRecords")
    /\ calls[2].n = 2
    /\ last.err # nil
    /\ d = last.arg

\* The number of pipes in an identifier.
Pipes(id) == Cardinality({i \in 1..Len(id) : id[i] = "|"})

\* C5: an import of an identifier that does not hold exactly three
\* pipe-separated tokens returns an error and no resource, makes no remote
\* call and leaves the ResourceData as it was handed over.
C5_ImportNeedsThreeTokens ==
    (last.op = "Import" /\ Pipes(last.arg.id) # 2)
        => /\ last.err # nil
           /\ last.ret = 0
           /\ calls = << >>
           /\ d = last.arg

C5_Witness ==
    /\ last.op = "Import"
    /\ Pipes(last.arg.id) = 3
    /\ last.err # nil
    /\ calls = << >>

\* C6: decomposing a composed name gives the subdomain back, for every
\* subdomain and domain; the name composed of the empty subdomain is the
\* domain.
C6_NameRoundTrip ==
    /\ nm.pc = "done" => nm.back = nm.s
    /\ (nm.pc \in {"composed", "done"} /\ nm.s = << >>) => nm.full = nm.d

C6_Witness ==
    /\ nm.pc = "done"
    /\ nm.s = <<"a", ".">>
    /\ nm.d = <<".", "a">>
    /\ nm.back = nm.s

\* C7: a Create that fails in either validation hook has made no remote call,
\* and leaves the local identifier empty and zone_id unset.
C7_ValidationBeforeRemote ==
    (/\ last.op = "Create"
     /\ last.err # nil
     /\ last.err[1] \in {"Error validating record name",
                         "Error validating record type"})
        => calls = << >> /\ d.id = << >> /\ d.zone_id = << >>

C7_Witness ==
    /\ last.op = "Create"
    /\ last.err # nil
    /\ last.err[1] = "Error validating record type"
    /\ calls = << >>

\* The last operation sent a record with a proxied flag other than the local
\* one.
ProxiedDiffers ==
    /\ last.op \in {"Create", "Update"}
    /\ Len(calls) >= 2
    /\ calls[2].sent.Proxied # last.arg.proxied

C9_ImportFilterIsRecordName ==
    (last.op = "Import" /\ Reached(2, "DNSRecords"))
        => calls[2].sent.Name
               = recordName(Split(last.arg.id)[1], Split(last.arg.id)[2])

\* The identifier the provider assigned to the resource of the last operation.
Assigned == IF last.op = "Create" THEN calls[2].id ELSE last.arg.id

\* C10, as stated: after a Create or an Update that returned success the
\* local identifier is the one the provider assigned, and is not empty.
C10_IdKept ==
    (last.op \in {"Create", "Update"} /\ last.err = nil)
        => d.id # << >> /\ d.id = Assigned

\* C10, as amended: after a Create or an Update that returned success, the
\* local identifier is the one the provider assigned when the re-read found
\* the record, and is empty when the re-read answered that it is missing.
C10_IdKeptUnlessMissing ==
    (last.op \in {"Create", "Update"} /\ last.err = nil)
        => /\ Reached(4, "DNSRecord")
           /\ IF calls[4].err = nil
              THEN d.id # << >> /\ d.id = Assigned
              ELSE NamesMissingRecord(calls[4].err) /\ d.id = << >>

C10_Witness ==
    /\ last.op = "Update"
    /\ last.err = nil
    /\ Reached(4, "DNSRecord")
    /\ calls[4].err = nil
    /\ d.id = last.arg.id
    /\ d.id # << >>

====
